---------------------------- MODULE Spec2Model ----------------------------
(***************************************************************************)
(* Model of the syslog (RFC 5424) streaming parser, jc/parsers/syslog_s.py *)
(*                                                                         *)
(* Text is a sequence of one-character strings.  The regular expressions   *)
(* of the parser are modelled by what Python's re engine computes on such  *)
(* a sequence (leftmost match, greedy / lazy preference, lookbehind).      *)
(***************************************************************************)
EXTENDS Integers, Sequences, FiniteSets, TLC

VARIABLES
    data,               \* parse(data, ...): the items of the input iterable
    raw,                \* parse(..., raw)
    quiet,              \* parse(..., quiet)
    ignore_exceptions,  \* parse(..., ignore_exceptions)
    idx,                \* number of items the for loop has pulled from data
    out,                \* the items the generator has yielded to its consumer
    warnings,           \* the messages written to the diagnostic channel
    status,             \* "running" | "done" (StopIteration) | "raised"
    proc_data,          \* _process: the dictionary under normalisation
    structs,            \* _process: structs
    structs_list,       \* _process: structs_list
    ppc,                \* _process: position in the function body
    arg                 \* _process: what its argument was composed from

vars == <<data, raw, quiet, ignore_exceptions, idx, out, warnings, status,
          proc_data, structs, structs_list, ppc, arg>>

drv_vars == <<data, raw, quiet, ignore_exceptions, idx, out, warnings, status>>

proc_vars == <<proc_data, structs, structs_list, ppc, arg>>

---------------------------------------------------------------------------
(* Characters                                                              *)

\* what \s matches and what str.strip() removes (the ASCII part)
WS == {" ", "\t", "\n", "\r", "\f"}

\* what \d matches (the ASCII part)
Digits == {"0", "1", "2", "3", "4", "5", "6", "7", "8", "9"}

Letters == {"a", "b", "c", "d", "e", "f", "g", "h", "i", "j", "k", "l", "m",
            "n", "o", "p", "q", "r", "s", "t", "u", "v", "w", "x", "y", "z",
            "A", "B", "C", "D", "E", "F", "G", "H", "I", "J", "K", "L", "M",
            "N", "O", "P", "Q", "R", "S", "T", "U", "V", "W", "X", "Y", "Z"}

\* what \w matches (the ASCII part)
WordChars == Letters \cup Digits \cup {"_"}

BSL == "\\"

QUOTE == "\""

\* s[i], or the empty string past either end
At(s, i) == IF i >= 1 /\ i <= Len(s) THEN s[i] ELSE ""

\* the first position in i..Len(s)+1 whose character is not in set
RECURSIVE SkipWhile(_, _, _)
SkipWhile(s, i, set) ==
    IF i <= Len(s) /\ s[i] \in set THEN SkipWhile(s, i + 1, set) ELSE i

\* the first position in i..Len(s)+1 whose character is in set
RECURSIVE SkipUntil(_, _, _)
SkipUntil(s, i, set) ==
    IF i <= Len(s) /\ s[i] \notin set THEN SkipUntil(s, i + 1, set) ELSE i

\* the last position in 0..i whose character is not in set
RECURSIVE BackWhile(_, _, _)
BackWhile(s, i, set) ==
    IF i >= 1 /\ s[i] \in set THEN BackWhile(s, i - 1, set) ELSE i

\* str.rstrip()
RStrip(s) == SubSeq(s, 1, BackWhile(s, Len(s), WS))

\* str.strip()
Strip(s) ==
    LET e == BackWhile(s, Len(s), WS)
        b == SkipWhile(s, 1, WS)
    IN  IF b > e THEN <<>> ELSE SubSeq(s, b, e)

\* whether pat occurs in s at position i
StartsAt(s, i, pat) ==
    /\ i + Len(pat) - 1 <= Len(s)
    /\ \A k \in 1..Len(pat) : s[i + k - 1] = pat[k]

\* str.replace(old, new): left to right, occurrences do not overlap
RECURSIVE ReplaceFrom(_, _, _, _)
ReplaceFrom(s, i, old, new) ==
    IF i > Len(s) THEN <<>>
    ELSE IF StartsAt(s, i, old)
         THEN new \o ReplaceFrom(s, i + Len(old), old, new)
         ELSE <<s[i]>> \o ReplaceFrom(s, i + 1, old, new)

Replace(s, old, new) == ReplaceFrom(s, 1, old, new)

---------------------------------------------------------------------------
(* Escape table and the structured-data extractors                         *)

\* escape_map, in its insertion (iteration) order
escape_map == << <<  <<BSL, BSL>>,   <<BSL>>  >>,
                 <<  <<BSL, QUOTE>>, <<QUOTE>> >>,
                 <<  <<BSL, "]">>,   <<"]">>  >> >>

\* for esc, esc_sub in escape_map.items(): val = val.replace(esc, esc_sub)
RECURSIVE FixEscapesFrom(_, _)
FixEscapesFrom(val, k) ==
    IF k > Len(escape_map) THEN val
    ELSE FixEscapesFrom(Replace(val, escape_map[k][1], escape_map[k][2]), k + 1)

FixEscapes(val) == FixEscapesFrom(val, 1)

\* as StructClose, without the lookbehind (?<!\\): the first "]" ends the block
RECURSIVE StructCloseNoLookbehind(_, _, _)
StructCloseNoLookbehind(s, j, first) ==
    IF j > Len(s) THEN 0
    ELSE IF (~first) /\ s[j] = "]" THEN j
    ELSE IF s[j] = "\n" THEN 0
    ELSE StructCloseNoLookbehind(s, j + 1, FALSE)

\* the end of the match of  .+?(?<!\\)\]  that starts at position j: the first
\* j' > j with s[j'] = "]" not preceded by a backslash, no newline before it;
\* 0 when there is none
RECURSIVE StructClose(_, _, _)
StructClose(s, j, first) ==
    IF j > Len(s) THEN 0
    ELSE IF (~first) /\ s[j] = "]" /\ s[j - 1] # BSL THEN j
    ELSE IF s[j] = "\n" THEN 0
    ELSE StructClose(s, j + 1, FALSE)

\* struct_match.findall(structs_string) from position i on
RECURSIVE StructsFrom(_, _)
StructsFrom(s, i) ==
    IF i > Len(s) THEN <<>>
    ELSE IF s[i] # "[" THEN StructsFrom(s, i + 1)
    ELSE LET e == StructClose(s, i + 1, TRUE)
         IN  IF e = 0 THEN StructsFrom(s, i + 1)
             ELSE <<SubSeq(s, i, e)>> \o StructsFrom(s, e + 1)

_extract_structs(structs_string) == StructsFrom(structs_string, 1)

\* {1,32} of the identity pattern
IdentMax == 32

\* the characters the identity class [^\[\=\x22\]\x20] leaves out
IdentExcluded == {"[", "=", QUOTE, "]", " "}

\* the greedy match of  [^\[\=\x22\]\x20]{1,32}\s  at position i: the longest
\* run of 1..32 class characters that a whitespace character follows (its
\* length), 0 when there is none
IdentLen(s, i) ==
    LET runEnd == SkipUntil(s, i, IdentExcluded)
        maxLen == IF runEnd - i > IdentMax THEN IdentMax ELSE runEnd - i
        ok == {n \in 1..maxLen : At(s, i + n) \in WS}
    IN  IF ok = {} THEN 0 ELSE CHOOSE n \in ok : \A m \in ok : m <= n

\* ident.search(struct_string) from position i on: [found, ident]
RECURSIVE IdentSearch(_, _)
IdentSearch(s, i) ==
    IF i > Len(s) THEN [found |-> FALSE, ident |-> <<>>]
    ELSE IF s[i] = "[" /\ IdentLen(s, i + 1) > 0
         THEN [found |-> TRUE, ident |-> SubSeq(s, i + 1, i + IdentLen(s, i + 1))]
         ELSE IdentSearch(s, i + 1)


NoneV == [k |-> "none", s |-> <<>>, n |-> 0, l |-> <<>>]

StrV(s) == [k |-> "str", s |-> s, n |-> 0, l |-> <<>>]

IntV(n) == [k |-> "int", s |-> <<>>, n |-> n, l |-> <<>>]

ListV(l) == [k |-> "list", s |-> <<>>, n |-> 0, l |-> l]

\* a value Python takes as true: not NoneV and not the empty string
Truthy(v) == v.k # "none" /\ ~(v.k = "str" /\ v.s = <<>>)

_extract_ident(struct_string) ==
    LET m == IdentSearch(struct_string, 1)
    IN  IF m.found THEN StrV(m.ident) ELSE NoneV

\* the match of  (\w+)=("[^"]*")  that starts at position i:
\* [found, key, val, last], val with its quotes
KvAt(s, i) ==
    LET e == SkipWhile(s, i, WordChars)
        q == SkipUntil(s, e + 2, {QUOTE})
    IN  IF e > i /\ At(s, e) = "=" /\ At(s, e + 1) = QUOTE /\ q <= Len(s)
        THEN [found |-> TRUE, key |-> SubSeq(s, i, e - 1),
              val |-> SubSeq(s, e + 1, q), last |-> q]
        ELSE [found |-> FALSE, key |-> <<>>, val |-> <<>>, last |-> 0]

\* val[1:-1]
Unquote(val) == SubSeq(val, 2, Len(val) - 1)

\* key_vals.findall(struct_string) from position i on, each pair with its
\* escapes fixed and its quotes removed: a list of <<key, val>>
RECURSIVE KvFrom(_, _)
KvFrom(s, i) ==
    IF i > Len(s) THEN <<>>
    ELSE LET m == KvAt(s, i)
         IN  IF m.found
             THEN << <<m.key, Unquote(FixEscapes(m.val))>> >> \o KvFrom(s, m.last + 1)
             ELSE KvFrom(s, i + 1)

_extract_kv(struct_string) == KvFrom(struct_string, 1)

\* my_values.update(val_obj) for every val_obj of the list, from {}
RECURSIVE UpdateAll(_, _, _)
UpdateAll(m, kvs, i) ==
    IF i > Len(kvs) THEN m
    ELSE UpdateAll([x \in DOMAIN m \cup {kvs[i][1]} |->
                       IF x = kvs[i][1] THEN kvs[i][2] ELSE m[x]], kvs, i + 1)

NoParams == [x \in {} |-> <<>>]

\* one iteration of  for a_struct in structs
StructObj(a_struct) ==
    [identity |-> _extract_ident(a_struct),
     parameters |-> UpdateAll(NoParams, _extract_kv(a_struct), 1)]

RECURSIVE StructObjs(_, _)
StructObjs(ss, i) ==
    IF i > Len(ss) THEN <<>> ELSE <<StructObj(ss[i])>> \o StructObjs(ss, i + 1)

---------------------------------------------------------------------------
(* Line tokenizer: the pattern `syslog` of parse, as re.match applies it   *)

IsDigit(c) == c \in Digits

\* the alternation  \d|\d{2}|1[1-8]\d|19[01]  between "<" and ">", on the digits
\* found there
PriorityDigitsOk(ds) ==
    \/ Len(ds) = 1
    \/ Len(ds) = 2
    \/ Len(ds) = 3 /\ ds[1] = "1" /\ ds[2] \in {"1", "2", "3", "4", "5", "6", "7", "8"}
    \/ Len(ds) = 3 /\ ds[1] = "1" /\ ds[2] = "9" /\ ds[3] \in {"0", "1"}

\* (?P<priority><(...)>) at the start of the line: the position of ">", else 0
PriorityEnd(line) ==
    LET e == SkipWhile(line, 2, Digits)
    IN  IF At(line, 1) = "<" /\ At(line, e) = ">" /\ e > 2
           /\ PriorityDigitsOk(SubSeq(line, 2, e - 1))
        THEN e ELSE 0

\* (?P<numoffset>Z|[+-]\d{2}:\d{2}) at position p: its last position, else 0
NumOffsetEnd(line, p) ==
    IF At(line, p) = "Z" THEN p
    ELSE IF /\ At(line, p) \in {"+", "-"}
            /\ IsDigit(At(line, p + 1)) /\ IsDigit(At(line, p + 2))
            /\ At(line, p + 3) = ":"
            /\ IsDigit(At(line, p + 4)) /\ IsDigit(At(line, p + 5))
         THEN p + 5 ELSE 0

\* fullyear-month-mday T hour:minute:second of the timestamp at position p
DateTimeOk(line, p) ==
    LET c(k) == At(line, p + k)
    IN  /\ c(0) \in {"1", "2"} /\ IsDigit(c(1)) /\ IsDigit(c(2)) /\ IsDigit(c(3))
        /\ c(4) = "-"
        /\ \/ c(5) = "0" /\ IsDigit(c(6))
           \/ c(5) = "1" /\ c(6) \in {"0", "1", "2"}
        /\ c(7) = "-"
        /\ \/ c(8) \in {"0", "1", "2"} /\ IsDigit(c(9))
           \/ c(8) = "3" /\ c(9) \in {"0", "1"}
        /\ c(10) = "T"
        /\ \/ c(11) \in {"0", "1"} /\ IsDigit(c(12))
           \/ c(11) = "2" /\ c(12) \in {"0", "1", "2", "3", "4"}
        /\ c(13) = ":"
        /\ c(14) \in {"0", "1", "2", "3", "4", "5"} /\ IsDigit(c(15))
        /\ c(16) = ":"
        /\ \/ c(17) \in {"0", "1", "2", "3", "4", "5"} /\ IsDigit(c(18))
           \/ c(17) = "6" /\ c(18) = "0"

\* length of "YYYY-MM-DDTHH:MM:SS"
DateTimeLen == 19

\* {1,6} of secfrac
SecFracMax == 6

\* (?P<timestamp>-|...) at position p: its last position, else 0
TimestampEnd(line, p) ==
    IF At(line, p) = "-" THEN p
    ELSE IF ~DateTimeOk(line, p) THEN 0
    ELSE LET q == p + DateTimeLen
             f == SkipWhile(line, q + 1, Digits)
         IN  IF At(line, q) = "."
             THEN IF f - (q + 1) >= 1 /\ f - (q + 1) <= SecFracMax
                  THEN NumOffsetEnd(line, f) ELSE 0
             ELSE NumOffsetEnd(line, q)

HostnameMax == 255

AppnameMax == 48

ProcidMax == 128

MsgidMax == 32

\* [\S]{1,max}\s at position p: the last position of the token, else 0
TokenEnd(line, p, max) ==
    LET e == SkipUntil(line, p, WS)
    IN  IF e > p /\ e - p <= max /\ e <= Len(line) THEN e - 1 ELSE 0

\* (?:\[.+?(?<!\\)\])+ at position p, greedy: the last position of the last
\* block, else 0
RECURSIVE BlocksEnd(_, _)
BlocksEnd(line, p) ==
    IF At(line, p) # "[" \/ StructClose(line, p + 1, TRUE) = 0 THEN 0
    ELSE IF At(line, StructClose(line, p + 1, TRUE) + 1) = "["
            /\ BlocksEnd(line, StructClose(line, p + 1, TRUE) + 1) > 0
         THEN BlocksEnd(line, StructClose(line, p + 1, TRUE) + 1)
         ELSE StructClose(line, p + 1, TRUE)

\* (?P<structureddata>-|(?:...)+) at position p: its last position, else 0
StructuredDataEnd(line, p) ==
    IF At(line, p) = "-" THEN p ELSE BlocksEnd(line, p)

\* (?:\s(?P<msg>.+))? after position e: the group msg, NoneV when the group
\* takes no part in the match
MsgGroup(line, e) ==
    LET m == SkipUntil(line, e + 2, {"\n"})
    IN  IF At(line, e + 1) \in WS /\ m > e + 2
        THEN StrV(SubSeq(line, e + 2, m - 1)) ELSE NoneV

NoMatch == [matched |-> FALSE, priority |-> NoneV, version |-> NoneV,
            timestamp |-> NoneV, hostname |-> NoneV, appname |-> NoneV,
            procid |-> NoneV, msgid |-> NoneV, structureddata |-> NoneV,
            msg |-> NoneV]

\* {1,255}, {1,48}, {1,128}, {1,32} of hostname, appname, procid, msgid
TokenMaxes == <<HostnameMax, AppnameMax, ProcidMax, MsgidMax>>

\* (hostname)\s(appname)\s(procid)\s(msgid)\s from position p on: the last
\* position of each token matched, 0 in the place of the first that fails
RECURSIVE TokenEnds(_, _, _)
TokenEnds(line, p, k) ==
    IF k > Len(TokenMaxes) THEN <<>>
    ELSE IF TokenEnd(line, p, TokenMaxes[k]) = 0 THEN <<0>>
    ELSE <<TokenEnd(line, p, TokenMaxes[k])>>
         \o TokenEnds(line, TokenEnd(line, p, TokenMaxes[k]) + 2, k + 1)

\* the groups of a match: timestamp t0..t1, tokens ending at e[1..4], structured
\* data ending at s1
Groups(line, pri, ver, t0, t1, e, s1) ==
    [matched |-> TRUE, priority |-> pri, version |-> ver,
     timestamp |-> StrV(SubSeq(line, t0, t1)),
     hostname |-> StrV(SubSeq(line, t1 + 2, e[1])),
     appname |-> StrV(SubSeq(line, e[1] + 2, e[2])),
     procid |-> StrV(SubSeq(line, e[2] + 2, e[3])),
     msgid |-> StrV(SubSeq(line, e[3] + 2, e[4])),
     structureddata |-> StrV(SubSeq(line, e[4] + 2, s1)),
     msg |-> MsgGroup(line, s1)]

\* the pattern from (?P<structureddata>...) on
MatchData(line, pri, ver, t0, t1, e) ==
    IF e[Len(e)] = 0 \/ StructuredDataEnd(line, e[Len(e)] + 2) = 0 THEN NoMatch
    ELSE Groups(line, pri, ver, t0, t1, e, StructuredDataEnd(line, e[Len(e)] + 2))

\* the pattern from the \s after (?P<timestamp>...) on
MatchTokens(line, pri, ver, t0, t1) ==
    IF t1 = 0 \/ At(line, t1 + 1) \notin WS THEN NoMatch
    ELSE MatchData(line, pri, ver, t0, t1, TokenEnds(line, t1 + 2, 1))

\* the pattern from (?P<timestamp>...) on, at position t0
MatchTimestamp(line, pri, ver, t0) ==
    MatchTokens(line, pri, ver, t0, TimestampEnd(line, t0))

\* the pattern from \s* on, at position p, with the groups priority and version
\* as given
MatchRest(line, p, pri, ver) ==
    MatchTimestamp(line, pri, ver, SkipWhile(line, p, WS))

\* the ways to match (?P<priority>...)?(?P<version>\d{1,2})? at the start of the
\* line, in the order the engine tries them: how many characters the priority
\* takes (e) and how many digits the version (v)
Openings(line) ==
    SelectSeq(<< [e |-> PriorityEnd(line), v |-> 2], [e |-> PriorityEnd(line), v |-> 1],
                 [e |-> PriorityEnd(line), v |-> 0],
                 [e |-> 0, v |-> 2], [e |-> 0, v |-> 1], [e |-> 0, v |-> 0] >>,
              LAMBDA o : \A i \in 1..o.v : IsDigit(At(line, o.e + i)))

\* the first opening of the list from which the rest of the pattern matches
RECURSIVE FirstMatch(_, _, _)
FirstMatch(line, os, i) ==
    IF i > Len(os) THEN NoMatch
    ELSE IF MatchRest(line, os[i].e + os[i].v + 1,
                      IF os[i].e > 0 THEN StrV(SubSeq(line, 1, os[i].e)) ELSE NoneV,
                      IF os[i].v > 0
                      THEN StrV(SubSeq(line, os[i].e + 1, os[i].e + os[i].v))
                      ELSE NoneV).matched
         THEN MatchRest(line, os[i].e + os[i].v + 1,
                      IF os[i].e > 0 THEN StrV(SubSeq(line, 1, os[i].e)) ELSE NoneV,
                      IF os[i].v > 0
                      THEN StrV(SubSeq(line, os[i].e + 1, os[i].e + os[i].v))
                      ELSE NoneV)
         ELSE FirstMatch(line, os, i + 1)

\* syslog.match(line)
syslog_match(line) == FirstMatch(line, Openings(line), 1)

---------------------------------------------------------------------------
(* Field normalizer: _process and the jc.utils helpers it calls            *)

\* as Dash, the placeholder kept as it is
DashKept(v) == v

\* for item in syslog_dict: if syslog_dict[item] == '-': syslog_dict[item] = None
Dash(v) == IF v = StrV(<<"-">>) THEN NoneV ELSE v

\* output_line of a matched line
MatchedLine(m) ==
    [priority |-> IF Truthy(Dash(m.priority))
                  THEN StrV(Unquote(m.priority.s)) ELSE NoneV,
     version |-> Dash(m.version),
     timestamp |-> Dash(m.timestamp),
     hostname |-> Dash(m.hostname),
     appname |-> Dash(m.appname),
     proc_id |-> Dash(m.procid),
     msg_id |-> Dash(m.msgid),
     structured_data |-> Dash(m.structureddata),
     message |-> Dash(m.msg)]

\* as UnparsableLine, without rstrip()
UnparsableLineKept(line) == [unparsable |-> StrV(line)]

\* output_line of a line the pattern does not match
UnparsableLine(line) == [unparsable |-> StrV(RStrip(line))]

DigitChars == <<"0", "1", "2", "3", "4", "5", "6", "7", "8", "9">>

DigitValue(c) == CHOOSE d \in 0..9 : DigitChars[d + 1] = c

RECURSIVE DecimalValue(_)
DecimalValue(ds) ==
    IF ds = <<>> THEN 0
    ELSE 10 * DecimalValue(SubSeq(ds, 1, Len(ds) - 1)) + DigitValue(ds[Len(ds)])

\* jc.utils.convert_to_int: the integer a numeric text stands for; null for a
\* missing or non-numeric value
convert_to_int(v) ==
    IF v.k = "str" /\ v.s # <<>> /\ \A i \in 1..Len(v.s) : IsDigit(v.s[i])
    THEN IntV(DecimalValue(v.s)) ELSE NoneV

\* whether jc.utils.timestamp can interpret the text: the pattern admits month
\* 00, day 00 and hour 24, which no date-time has
TimestampParsable(ts) ==
    /\ Len(ts) >= DateTimeLen
    /\ SubSeq(ts, 6, 7) # <<"0", "0">>
    /\ SubSeq(ts, 9, 10) # <<"0", "0">>
    /\ SubSeq(ts, 12, 13) # <<"2", "4">>

\* whether the offset of the timestamp is literally UTC
TimestampIsUtc(ts) ==
    \/ ts[Len(ts)] = "Z"
    \/ Len(ts) >= 6 /\ SubSeq(ts, Len(ts) - 5, Len(ts)) = <<"+", "0", "0", ":", "0", "0">>

\* jc.utils.timestamp(...).naive, as the epoch of the text it was computed from
TimestampNaive(ts) ==
    IF TimestampParsable(ts) THEN [k |-> "epoch", s |-> ts, n |-> 0, l |-> <<>>]
    ELSE NoneV

\* jc.utils.timestamp(...).utc
TimestampUtc(ts) ==
    IF TimestampParsable(ts) /\ TimestampIsUtc(ts)
    THEN [k |-> "epoch_utc", s |-> ts, n |-> 0, l |-> <<>>]
    ELSE NoneV

Has(pd, key) == key \in DOMAIN pd

\* for key, value in proc_data.items(): if proc_data[key]: ... value.strip()
StripValues(pd) ==
    [key \in DOMAIN pd |-> IF Truthy(pd[key]) THEN StrV(Strip(pd[key].s)) ELSE pd[key]]

\* add timestamp fields
AddTimestamps(pd) ==
    IF Has(pd, "timestamp") /\ Truthy(pd["timestamp"])
    THEN ("timestamp_epoch" :> TimestampNaive(pd["timestamp"].s))
         @@ ("timestamp_epoch_utc" :> TimestampUtc(pd["timestamp"].s))
         @@ pd
    ELSE pd

\* fixup escaped characters of the message
FixMessage(pd) ==
    IF Has(pd, "message") /\ Truthy(pd["message"])
    THEN [pd EXCEPT !["message"] = StrV(FixEscapes(pd["message"].s))]
    ELSE pd

\* parse identity and key value pairs in the structured data section
ParseStructs(pd) ==
    IF Has(pd, "structured_data") /\ Truthy(pd["structured_data"])
    THEN [pd EXCEPT !["structured_data"] =
              ListV(StructObjs(_extract_structs(pd["structured_data"].s), 1))]
    ELSE pd

int_list == {"priority", "version", "proc_id"}

\* integer conversions
ConvertInts(pd) ==
    [key \in DOMAIN pd |-> IF key \in int_list THEN convert_to_int(pd[key]) ELSE pd[key]]

_process(pd) == ConvertInts(ParseStructs(FixMessage(AddTimestamps(StripValues(pd)))))

---------------------------------------------------------------------------
(* Stream driver: the generator parse, wrapped by jc.streaming.add_jc_meta *)

\* an item of the input iterable: a line of text, or something that is no str
TextItem(s) == [text |-> TRUE, s |-> s]

NonText == [text |-> FALSE, s |-> <<>>]

NoRecord == [x \in {} |-> NoneV]

\* the line of an item that carries none
NoLine == [text |-> FALSE, s |-> <<>>]

\* jc.streaming.streaming_line_input_type_check(line) raises TypeError
TypeCheckFails(item) == ~item.text

\* as IsBlank, for the test  if not line
IsBlankOnlyEmpty(line) == line = <<>>

\* not line.strip()
IsBlank(line) == Strip(line) = <<>>

\* jc.streaming.stream_success: what the wrapper yields for a dictionary; pos is
\* the place in data of the item it was made from
stream_success(output_line, pos) ==
    [kind |-> "record", rec |-> output_line, meta |-> ignore_exceptions,
     success |-> TRUE, error |-> "", line |-> NoLine, pos |-> pos]

\* jc.streaming.stream_error: what the wrapper yields for (exception, line)
stream_error(e, item, pos) ==
    [kind |-> "envelope", rec |-> NoRecord, meta |-> TRUE,
     success |-> FALSE, error |-> e, line |-> item, pos |-> pos]

\* jc.streaming.raise_or_yield(ignore_exceptions, e, line) returns (e, line)
\* instead of raising e
raise_or_yield_returns == ignore_exceptions

\* output_line if raw else _process(output_line)
Yielded(output_line) == IF raw THEN output_line ELSE _process(output_line)

\* as Warned, ignore_exceptions taken to imply quiet
WarnedUnlessTolerant(line) ==
    IF ~quiet /\ ~ignore_exceptions THEN Append(warnings, RStrip(line)) ELSE warnings

\* if not quiet: jc.utils.warning_message([f'Unparsable line found: ...'])
Warned(line) ==
    IF ~quiet THEN Append(warnings, RStrip(line)) ELSE warnings

Pulling == status = "running" /\ idx < Len(data)

\* for line in data: the iterable is exhausted and the generator returns
StopIteration ==
    /\ status = "running" /\ idx = Len(data)
    /\ status' = "done"
    /\ UNCHANGED <<data, raw, quiet, ignore_exceptions, idx, out, warnings>>
    /\ UNCHANGED proc_vars

\* as RaiseError, the handler swallowing the exception: the loop goes on
RaiseErrorSwallowed ==
    /\ Pulling /\ TypeCheckFails(data[idx + 1])
    /\ ~raise_or_yield_returns
    /\ idx' = idx + 1
    /\ UNCHANGED <<data, raw, quiet, ignore_exceptions, out, warnings, status>>
    /\ UNCHANGED proc_vars

\* an iteration whose type check raises, the handler re-raising
RaiseError ==
    /\ Pulling /\ TypeCheckFails(data[idx + 1])
    /\ ~raise_or_yield_returns
    /\ status' = "raised"
    /\ idx' = idx + 1
    /\ UNCHANGED <<data, raw, quiet, ignore_exceptions, out, warnings>>
    /\ UNCHANGED proc_vars

\* an iteration whose type check raises, the handler yielding (e, line)
YieldError ==
    /\ Pulling /\ TypeCheckFails(data[idx + 1])
    /\ raise_or_yield_returns
    /\ out' = Append(out, stream_error("TypeError", data[idx + 1], idx + 1))
    /\ idx' = idx + 1
    /\ UNCHANGED <<data, raw, quiet, ignore_exceptions, warnings, status>>
    /\ UNCHANGED proc_vars

\* an iteration on a blank line: continue
SkipBlank ==
    /\ Pulling /\ ~TypeCheckFails(data[idx + 1])
    /\ IsBlank(data[idx + 1].s)
    /\ idx' = idx + 1
    /\ UNCHANGED <<data, raw, quiet, ignore_exceptions, out, warnings, status>>
    /\ UNCHANGED proc_vars

\* an iteration on a line the pattern matches
YieldParsed ==
    /\ Pulling /\ ~TypeCheckFails(data[idx + 1])
    /\ ~IsBlank(data[idx + 1].s)
    /\ \E m \in {syslog_match(data[idx + 1].s)} :
          /\ m.matched
          /\ out' = Append(out, stream_success(Yielded(MatchedLine(m)), idx + 1))
    /\ idx' = idx + 1
    /\ UNCHANGED <<data, raw, quiet, ignore_exceptions, warnings, status>>
    /\ UNCHANGED proc_vars

\* an iteration on a line the pattern does not match
YieldUnparsable ==
    /\ Pulling /\ ~TypeCheckFails(data[idx + 1])
    /\ ~IsBlank(data[idx + 1].s)
    /\ ~syslog_match(data[idx + 1].s).matched
    /\ warnings' = Warned(data[idx + 1].s)
    /\ out' = Append(out, stream_success(
                 Yielded(UnparsableLine(data[idx + 1].s)), idx + 1))
    /\ idx' = idx + 1
    /\ UNCHANGED <<data, raw, quiet, ignore_exceptions, status>>
    /\ UNCHANGED proc_vars

\* input lines
LineScenarioA == <<"<", "1", "6", "5", ">", "1", " ", "2", "0", "0", "3", "-", 
        "0", "8", "-", "2", "4", "T", "0", "5", ":", "1", "4", ":", 
        "1", "5", ".", "0", "0", "0", "0", "0", "3", "Z", " ", "h", 
        "o", "s", "t", "0", "1", " ", "a", "p", "p", " ", "-", " ", 
        "-", " ", "-">>

LineStructured == <<"<", "3", "4", ">", "1", " ", "-", " ", "h", " ", "a", " ", 
        "7", " ", "m", " ", "[", "e", " ", "k", "=", "\"", "v", "\\", 
        "]", "\"", "]", "[", "f", "]", " ", "m", "\\", "\\", "]", "g", 
        " ", "\n">>

LineGarbage == <<"g", "a", "r", "b", "a", "g", "e", " ", "l", "i", "n", "e", 
        " ", "w", "i", "t", "h", " ", "n", "o", " ", "s", "t", "r", 
        "u", "c", "t", "u", "r", "e">>

LinePadded == <<" ", "\t", "x", " ", "y", " ", "\t", "\n">>

LineBlank == <<" ", "\n">>

Items == {TextItem(LineScenarioA), TextItem(LineStructured), TextItem(LineGarbage),
          TextItem(LinePadded), TextItem(LineBlank), NonText}

\* the longest input
MaxLines == 3

IdleProc ==
    /\ proc_data = NoRecord
    /\ structs = <<>>
    /\ structs_list = <<>>
    /\ ppc = "idle"
    /\ arg = <<>>

Init ==
    /\ data \in UNION {[1..n -> Items] : n \in 0..MaxLines}
    /\ raw \in BOOLEAN
    /\ quiet \in BOOLEAN
    /\ ignore_exceptions \in BOOLEAN
    /\ idx = 0
    /\ out = <<>>
    /\ warnings = <<>>
    /\ status = "running"
    /\ IdleProc

Next ==
    \/ StopIteration
    \/ RaiseError
    \/ YieldError
    \/ SkipBlank
    \/ YieldParsed
    \/ YieldUnparsable

Spec == Init /\ [][Next]_vars

---------------------------------------------------------------------------
(* One line that starts with a priority                                    *)

\* the largest priority value: <191>
PriMax == 191

RECURSIVE ToDigits(_)
ToDigits(p) ==
    IF p < 10 THEN <<DigitChars[p + 1]>>
    ELSE ToDigits(p \div 10) \o <<DigitChars[(p % 10) + 1]>>

\* well-formed lines without their priority
Bodies == {SubSeq(LineScenarioA, 6, Len(LineScenarioA)),
           SubSeq(LineStructured, 5, Len(LineStructured)),
           <<"-", " ", "h", " ", "a", " ", "p", " ", "m", " ", "-", " ", "m", "s", "g">>}

PriLine(p, body) == <<"<">> \o ToDigits(p) \o <<">">> \o body

InitPri ==
    /\ data \in {<<TextItem(PriLine(p, b))>> : p \in 0..PriMax, b \in Bodies}
    /\ raw \in BOOLEAN
    /\ quiet \in BOOLEAN
    /\ ignore_exceptions \in BOOLEAN
    /\ idx = 0
    /\ out = <<>>
    /\ warnings = <<>>
    /\ status = "running"
    /\ IdleProc

NextPri ==
    \/ StopIteration
    \/ YieldParsed
    \/ YieldUnparsable

SpecPri == InitPri /\ [][NextPri]_vars

---------------------------------------------------------------------------
(* _process, statement by statement, on the output_line of a matched line  *)

\* the text of a parameter value is a list of units, each a plain character or
\* one of the three escape sequences: the empty value, the values of one unit,
\* and an escaped bracket before and after a plain character
Values == {<<>>,
           << <<"x">> >>, << <<BSL, "]">> >>, << <<BSL, BSL>> >>, << <<BSL, QUOTE>> >>,
           << <<"x">>, <<BSL, "]">> >>, << <<BSL, "]">>, <<"x">> >>}

\* the most bracket blocks in the structured data
MaxBlocks == 2

\* the longest message
MaxMsgLen == 3

MsgChars == {"x", "]", BSL, QUOTE}

SdId == <<"e", "@", "1">>

SdKey == <<"k">>

\* a block with no parameter, or with one parameter
Blocks ==
    {[id |-> SdId, params |-> <<>>]}
    \cup {[id |-> SdId, params |-> <<[key |-> SdKey, units |-> u]>>] :
            u \in Values}

Args ==
    {[message |-> m, blocks |-> <<>>] :
        m \in UNION {[1..n -> MsgChars] : n \in 0..MaxMsgLen}}
    \cup {[message |-> <<>>, blocks |-> b] :
            b \in UNION {[1..n -> Blocks] : n \in 1..MaxBlocks}}

RECURSIVE Concat(_, _)
Concat(ss, i) == IF i > Len(ss) THEN <<>> ELSE ss[i] \o Concat(ss, i + 1)

\* key="value" with a space before it
ParamText(prm) == <<" ">> \o prm.key \o <<"=", QUOTE>> \o Concat(prm.units, 1) \o <<QUOTE>>

\* [id key="value"]
BlockText(b) ==
    <<"[">> \o b.id \o Concat([j \in 1..Len(b.params) |-> ParamText(b.params[j])], 1)
            \o <<"]">>

LinePrefix == <<"<", "1", "6", "5", ">", "1", " ", "2", "0", "0", "3", "-", 
        "0", "8", "-", "2", "4", "T", "0", "5", ":", "1", "4", ":", 
        "1", "5", ".", "0", "0", "0", "0", "0", "3", "Z", " ", "h", 
        "o", "s", "t", "0", "1", " ", "a", "p", "p", " ", "7", " ", 
        "m", " ">>

\* the line whose structured data and message are those of a
ComposeLine(a) ==
    LinePrefix
    \o (IF a.blocks = <<>> THEN <<"-">>
        ELSE Concat([i \in 1..Len(a.blocks) |-> BlockText(a.blocks[i])], 1))
    \o (IF a.message = <<>> THEN <<>> ELSE <<" ">> \o a.message)

IdleDriver ==
    /\ data = <<>>
    /\ raw = FALSE
    /\ quiet = FALSE
    /\ ignore_exceptions = FALSE
    /\ idx = 0
    /\ out = <<>>
    /\ warnings = <<>>
    /\ status = "idle"

InitProcess ==
    /\ arg \in Args
    /\ proc_data = MatchedLine(syslog_match(ComposeLine(arg)))
    /\ structs = <<>>
    /\ structs_list = <<>>
    /\ ppc = "strip"
    /\ IdleDriver

\* remove any spaces around values
PStripValues ==
    /\ ppc = "strip"
    /\ proc_data' = StripValues(proc_data)
    /\ ppc' = "timestamp"
    /\ UNCHANGED <<structs, structs_list, arg>>
    /\ UNCHANGED drv_vars

\* add timestamp fields
PAddTimestamps ==
    /\ ppc = "timestamp"
    /\ proc_data' = AddTimestamps(proc_data)
    /\ ppc' = "message"
    /\ UNCHANGED <<structs, structs_list, arg>>
    /\ UNCHANGED drv_vars

\* fixup escaped characters
PFixMessage ==
    /\ ppc = "message"
    /\ proc_data' = FixMessage(proc_data)
    /\ ppc' = "structs"
    /\ UNCHANGED <<structs, structs_list, arg>>
    /\ UNCHANGED drv_vars

\* if 'structured_data' in proc_data and proc_data['structured_data']:
\*     structs_list = []; structs = _extract_structs(...)
PExtractStructs ==
    /\ ppc = "structs"
    /\ IF Has(proc_data, "structured_data") /\ Truthy(proc_data["structured_data"])
       THEN /\ structs' = _extract_structs(proc_data["structured_data"].s)
            /\ structs_list' = <<>>
            /\ ppc' = "loop"
       ELSE /\ ppc' = "ints"
            /\ UNCHANGED <<structs, structs_list>>
    /\ UNCHANGED <<proc_data, arg>>
    /\ UNCHANGED drv_vars

\* for a_struct in structs: ... structs_list.append(struct_obj)
PStructIter ==
    /\ ppc = "loop"
    /\ Len(structs_list) < Len(structs)
    /\ structs_list' = Append(structs_list, StructObj(structs[Len(structs_list) + 1]))
    /\ UNCHANGED <<proc_data, structs, ppc, arg>>
    /\ UNCHANGED drv_vars

\* proc_data['structured_data'] = structs_list
PStoreStructs ==
    /\ ppc = "loop"
    /\ Len(structs_list) = Len(structs)
    /\ proc_data' = [proc_data EXCEPT !["structured_data"] = ListV(structs_list)]
    /\ ppc' = "ints"
    /\ UNCHANGED <<structs, structs_list, arg>>
    /\ UNCHANGED drv_vars

\* integer conversions; return proc_data
PConvertInts ==
    /\ ppc = "ints"
    /\ proc_data' = ConvertInts(proc_data)
    /\ ppc' = "done"
    /\ UNCHANGED <<structs, structs_list, arg>>
    /\ UNCHANGED drv_vars

NextProcess ==
    \/ PStripValues
    \/ PAddTimestamps
    \/ PFixMessage
    \/ PExtractStructs
    \/ PStructIter
    \/ PStoreStructs
    \/ PConvertInts

SpecProcess == InitProcess /\ [][NextProcess]_vars

---------------------------------------------------------------------------
(* Properties of the stream driver (Spec)                                  *)

\* the places in out of the items made from the j-th input item
ItemsFrom(j) == {i \in 1..Len(out) : out[i].pos = j}

\* an input item that is a line of nothing but whitespace (or of nothing)
BlankText(item) == item.text /\ \A k \in 1..Len(item.s) : item.s[k] \in WS

\* out is in input order
InInputOrder == \A i \in 1..Len(out) : \A i2 \in 1..Len(out) :
                    i < i2 => out[i].pos < out[i2].pos

\* the j-th input item is a non-blank line of text that the pattern does not match
Unmatched(j) ==
    /\ data[j].text
    /\ ~BlankText(data[j])
    /\ ~syslog_match(data[j].s).matched

\* the place of the first input item that is not text, Len(data) + 1 if all are
FirstNonText ==
    IF \A j \in 1..Len(data) : data[j].text THEN Len(data) + 1
    ELSE CHOOSE j \in 1..Len(data) :
            ~data[j].text /\ \A j2 \in 1..(j - 1) : data[j2].text

\* C1, as claimed: in tolerant mode every input line consumed so far has exactly
\* one output item, and the i-th output item is the one of the i-th input line.
C1_OneItemPerLine ==
    ignore_exceptions =>
        /\ \A j \in 1..idx : Cardinality(ItemsFrom(j)) = 1
        /\ \A i \in 1..Len(out) : out[i].pos = i

\* C1, amended: in tolerant mode the stream never raises; every input line
\* consumed so far that is not blank has exactly one output item (a record or a
\* failure envelope), a blank line has none, out is in input order, and the
\* stream ends only when every line was consumed.
C1_OneItemPerNonBlankLine ==
    ignore_exceptions =>
        /\ status # "raised"
        /\ \A j \in 1..idx :
              Cardinality(ItemsFrom(j)) = IF BlankText(data[j]) THEN 0 ELSE 1
        /\ \A i \in 1..Len(out) :
              /\ out[i].pos \in 1..idx
              /\ out[i].kind = (IF data[out[i].pos].text THEN "record" ELSE "envelope")
        /\ InInputOrder
        /\ (status = "done" => idx = Len(data))

\* tolerant mode, the input ended, a blank line was skipped between two lines
\* that gave an item each
C1_Witness ==
    /\ ignore_exceptions /\ status = "done"
    /\ Len(data) = 3 /\ BlankText(data[2]) /\ ~BlankText(data[1])
    /\ Len(out) = 2 /\ out[2].pos = 3

\* C2: in strict and quiet modes nothing is consumed past the first line whose
\* processing raises; the error ends the stream exactly there; every item
\* emitted is the unchanged record of a non-failing line before it, in order,
\* one per non-blank line, and none is a failure envelope.
C2_StrictStopsAtFirstError ==
    ~ignore_exceptions =>
        /\ idx <= FirstNonText
        /\ (status = "raised") = (idx = FirstNonText)
        /\ (status = "done" => idx = Len(data))
        /\ \A i \in 1..Len(out) :
              /\ out[i].kind = "record"
              /\ ~out[i].meta
              /\ out[i].pos \in 1..idx
              /\ out[i].pos < FirstNonText
              /\ out[i].rec \in
                    {Yielded(IF m.matched THEN MatchedLine(m)
                             ELSE UnparsableLine(data[out[i].pos].s)) :
                        m \in {syslog_match(data[out[i].pos].s)}}
        /\ \A j \in 1..idx :
              data[j].text =>
                  Cardinality(ItemsFrom(j)) = IF BlankText(data[j]) THEN 0 ELSE 1
        /\ InInputOrder

\* strict or quiet mode: the second of three items raised after one record
C2_Witness ==
    /\ ~ignore_exceptions /\ status = "raised"
    /\ Len(data) = 3 /\ idx = 2 /\ data[3].text /\ ~BlankText(data[3])
    /\ Len(out) = 1

\* C3: an input item that is not text makes parse raise in every mode: the
\* stream ends at that item and no failure envelope is emitted for it.
C3_NonTextAlwaysRaises ==
    \A j \in 1..idx :
        ~data[j].text => /\ status = "raised"
                         /\ idx = j
                         /\ ItemsFrom(j) = {}

\* s without its trailing newline
ChompNewline(s) ==
    IF s # <<>> /\ s[Len(s)] = "\n" THEN SubSeq(s, 1, Len(s) - 1) ELSE s

\* v is line without its trailing whitespace and, when lead, without its
\* leading whitespace
Stripped(v, line, lead) ==
    \E b \in {k \in 1..Len(line) : line[k] \notin WS} :
        /\ \A k \in (b + 1)..Len(line) : line[k] \in WS
        /\ \E a \in (IF lead THEN {k \in 1..b : line[k] \notin WS} ELSE {1}) :
              /\ \A k \in 1..(a - 1) : lead => line[k] \in WS
              /\ v = SubSeq(line, a, b)

\* the j-th input item raised nothing and has its item, a record with the one
\* field unparsable
UnparsableRecord(j) ==
    /\ ItemsFrom(j) # {}
    /\ ~(status = "raised" /\ idx = j)
    /\ \A i \in ItemsFrom(j) :
          /\ out[i].kind = "record"
          /\ DOMAIN out[i].rec = {"unparsable"}
          /\ out[i].rec["unparsable"].k = "str"

PlaceholderLine(j) ==
    /\ data[j].text
    /\ \E m \in {syslog_match(data[j].s)} :
          /\ m.matched
          /\ m.structureddata = StrV(<<"-">>)
          /\ m.msg = NoneV

\* C6, as claimed: the normalized record of such a line has structured_data
\* equal to the empty sequence and message equal to null.
C6_EmptyStructuredData ==
    \A i \in 1..Len(out) :
        (~raw /\ PlaceholderLine(out[i].pos)) =>
            /\ out[i].rec["structured_data"] = ListV(<<>>)
            /\ out[i].rec["message"] = NoneV

\* C6, amended: the normalized record of such a line has structured_data equal
\* to null and message equal to null.
C6_NullStructuredData ==
    \A i \in 1..Len(out) :
        (~raw /\ PlaceholderLine(out[i].pos)) =>
            /\ out[i].kind = "record"
            /\ out[i].rec["structured_data"] = NoneV
            /\ out[i].rec["message"] = NoneV

\* the line of scenario A gave its normalized record
C6_Witness ==
    /\ ~raw
    /\ \E i \in 1..Len(out) :
          /\ data[out[i].pos] = TextItem(LineScenarioA)
          /\ PlaceholderLine(out[i].pos)
          /\ out[i].rec["priority"] = IntV(165)

UnparsableCount == Cardinality({j \in 1..idx : Unmatched(j)})

\* no output item is a warning: each is the record or envelope of one input item
NoWarningInOut ==
    /\ \A i \in 1..Len(out) : out[i].pos \in 1..idx /\ out[i].kind \in {"record", "envelope"}
    /\ \A j \in 1..idx : Cardinality(ItemsFrom(j)) <= 1

\* C8, as claimed: the warnings written are as many as the unparsable lines
\* processed in strict mode, and none in quiet mode and in tolerant mode.
C8_WarningsByMode ==
    /\ Len(warnings) = IF ~quiet /\ ~ignore_exceptions THEN UnparsableCount ELSE 0
    /\ NoWarningInOut

\* C8, amended: the warnings written are as many as the unparsable lines
\* processed when quiet is not set, with or without ignore_exceptions, and none
\* when quiet is set; a warning is never an item of the output stream.
C8_WarningsByQuiet ==
    /\ Len(warnings) = IF ~quiet THEN UnparsableCount ELSE 0
    /\ NoWarningInOut

\* ignore_exceptions without quiet: two unparsable lines, two warnings
C8_Witness ==
    /\ ignore_exceptions /\ ~quiet
    /\ UnparsableCount = 2
    /\ Len(warnings) = 2

---------------------------------------------------------------------------
(* Property of the priority (SpecPri)                                      *)

\* the digits between "<" and ">" at the start of the line
PriDigits(line) == SubSeq(line, 2, SkipWhile(line, 2, Digits) - 1)

\* C5: a well-formed line that starts with <p>, p in 0..191, is matched and the
\* priority of its record is p.
C5_PriorityInRange ==
    status = "done" =>
        /\ Len(out) = 1
        /\ "priority" \in DOMAIN out[1].rec
        /\ out[1].rec["priority"] =
              (IF raw THEN StrV(PriDigits(data[1].s))
               ELSE IntV(DecimalValue(PriDigits(data[1].s))))

---------------------------------------------------------------------------
(* Properties of the normalizer (SpecProcess)                              *)

HasEscapedBracket(b) ==
    \E j \in 1..Len(b.params) : \E u \in 1..Len(b.params[j].units) :
        b.params[j].units[u] = <<BSL, "]">>

\* the structured data was composed with an escaped "]" in a parameter value
EscapedBracketCase == \E i \in 1..Len(arg.blocks) : HasEscapedBracket(arg.blocks[i])

\* C7: when a quoted parameter value holds an escaped closing bracket, the
\* extractor returns the bracket blocks as composed, one entry per block, none
\* cut at the escaped bracket, and the parameter stays in the StructuredEntry of
\* its own block.
C7_NotSplitAtEscapedBracket ==
    EscapedBracketCase =>
        /\ ppc \in {"loop", "ints", "done"} =>
              structs = [i \in 1..Len(arg.blocks) |-> BlockText(arg.blocks[i])]
        /\ ppc \in {"ints", "done"} =>
              /\ proc_data["structured_data"].k = "list"
              /\ Len(proc_data["structured_data"].l) = Len(arg.blocks)
              /\ \A i \in 1..Len(arg.blocks) :
                    DOMAIN proc_data["structured_data"].l[i].parameters
                        = {arg.blocks[i].params[j].key : j \in 1..Len(arg.blocks[i].params)}

\* two blocks, the second with an escaped bracket in its value, normalized
C7_Witness ==
    /\ ppc = "done"
    /\ Len(arg.blocks) = 2
    /\ HasEscapedBracket(arg.blocks[2])
    /\ Len(structs) = 2
    /\ proc_data["structured_data"].l[2].parameters[SdKey] = <<"]">>

\* one left-to-right decoding pass: each escape sequence gives its character
RECURSIVE Decode(_, _)
Decode(s, i) ==
    IF i > Len(s) THEN <<>>
    ELSE IF s[i] = BSL /\ At(s, i + 1) \in {BSL, QUOTE, "]"}
         THEN <<s[i + 1]>> \o Decode(s, i + 2)
         ELSE <<s[i]>> \o Decode(s, i + 1)

\* C9: the message, and every parameter value, is resolved as by one
\* left-to-right decoding pass.
C9_OnePassDecoding ==
    ppc = "done" =>
        /\ arg.message # <<>> =>
              proc_data["message"] = StrV(Decode(arg.message, 1))
        /\ arg.blocks # <<>> =>
              /\ proc_data["structured_data"].k = "list"
              /\ Len(proc_data["structured_data"].l) = Len(arg.blocks)
              /\ \A i \in 1..Len(arg.blocks) : \A j \in 1..Len(arg.blocks[i].params) :
                    \E ps \in {proc_data["structured_data"].l[i].parameters} :
                        /\ arg.blocks[i].params[j].key \in DOMAIN ps
                        /\ ps[arg.blocks[i].params[j].key]
                             = Decode(Concat(arg.blocks[i].params[j].units, 1), 1)

\* C10: the identity of the StructuredEntry of every bracket block is the run of
\* characters after its opening bracket, also when the block has no key/value
\* pair, and then its parameters are the empty mapping.
C10_IdentityOfEveryBlock ==
    (ppc = "done" /\ arg.blocks # <<>>) =>
        /\ proc_data["structured_data"].k = "list"
        /\ Len(proc_data["structured_data"].l) = Len(arg.blocks)
        /\ \A i \in 1..Len(arg.blocks) :
              /\ proc_data["structured_data"].l[i].identity = StrV(arg.blocks[i].id)
              /\ arg.blocks[i].params = <<>> =>
                    proc_data["structured_data"].l[i].parameters = NoParams

=============================================================================
